---------------------------- MODULE Spec2Model ----------------------------
(***************************************************************************)
(* A model of the MicroBench service node (pkg/service/service.go): the    *)
(* connection registry (connPool guarded by connPoolMu), the call-tree     *)
(* dispatcher (Process / callService), the start-up pre-warm (Preconnect)  *)
(* and the ingress adapter (handle_http), for a small graph of nodes.      *)
(*                                                                         *)
(* Time is a logical clock `now`, one unit per second.  Every goroutine is *)
(* a record with a program position; a Process invocation is named by its  *)
(* path in the call tree: <<r>> is the invocation made by ingress request  *)
(* r, and p \o <<i>> is both the fan-out goroutine that invocation p       *)
(* starts for its i-th peer and the invocation that goroutine's remote     *)
(* call starts on the peer.                                                *)
(***************************************************************************)
EXTENDS Integers, Sequences, FiniteSets, TLC

\* ------------------------------------------------------------------ bounds
\* Number of ingress requests handled by the frontend node.
MaxReq == 1
\* Latest clock value at which an ingress request may arrive.
MaxArrival == 1
\* Goroutines that use the registry of one node directly, and the number of
\* look-ups they make in all.
MaxCallers == 2
MaxCalls == 3
\* requests that reach a frontend serving several clients at once
MaxBurst == 3

\* -------------------------------------------------------- program constants
\* context.WithTimeout(ctx, 3*time.Second)
Timeout == 3
StatusOK == 200
StatusMethodNotAllowed == 405
StatusInternalServerError == 500

\* ------------------------------------------------------------ environment
Nodes == {"A", "B", "C"}
\* The node that serves the HTTP frontend.
Frontend == "A"

\* processing delays a node may be configured with (seconds)
Delays == {0, 1, 2, 5}
MaxDelay == CHOOSE d \in Delays : \A e \in Delays : e <= d

\* The clock stops where nothing can be pending any more: a request arrives
\* by MaxArrival, a remote invocation starts before its deadline and sleeps
\* at most MaxDelay.
MaxTime == MaxArrival + Timeout + MaxDelay

\* Peer lists (ServiceConfig.OutServices) of the graphs explored.
Topologies ==
    { [A |-> <<>>,         B |-> <<>>,    C |-> <<>>],
      [A |-> <<"B">>,      B |-> <<>>,    C |-> <<>>],
      [A |-> <<"B", "C">>, B |-> <<>>,    C |-> <<>>],
      [A |-> <<"B", "B">>, B |-> <<>>,    C |-> <<>>],
      [A |-> <<"B">>,      B |-> <<"C">>, C |-> <<>>] }

\* Delay settings explored: no delay, or one of the nodes A and B slow (2:
\* within the deadline, 5: beyond it), or every node with a delay of 1.
DelayConfigs ==
    { d \in [Nodes -> Delays] :
        \/ /\ Cardinality({n \in Nodes : d[n] > 0}) <= 1
           /\ d["C"] = 0
           /\ \A n \in Nodes : d[n] # 1
        \/ \A n \in Nodes : d[n] = 1 }

Methods == {"GET", "POST", "PUT"}
Bodies == {"abc123", ""}

NoErr == ""
ErrConnect == "failed to connect"
ErrUnavailable == "unavailable"
ErrDeadline == "context deadline exceeded"

NilConn == 0
NilMsg == [From |-> "", BenchId |-> "", TraceId |-> <<>>, Depth |-> -1]

VARIABLES
    outServices,      \* [Nodes -> Seq(Nodes)]   Service.outServices
    processingDelay,  \* [Nodes -> Nat]          Service.processingDelay
    connPool,         \* [Nodes -> [peer names -> channel handle]]
    connPoolMu,       \* [Nodes -> [r : Nat, w : BOOLEAN]]  the RWMutex
    dialed,           \* [Nodes -> Seq(peer)]    channels constructed, in order
    boot,             \* [Nodes -> record]       main: Preconnect, then serve
    http,             \* [request -> record]     handle_http invocations
    inv,              \* [path -> record]        Process invocations
    task,             \* [path -> record]        fan-out goroutines
    caller,           \* [1 .. k -> record]      direct users of the registry
    now               \* the clock

vars == <<outServices, processingDelay, connPool, connPoolMu, dialed,
          boot, http, inv, task, caller, now>>

config == <<outServices, processingDelay>>

\* ------------------------------------------------------------- formatting
Digit(d) == <<"0", "1", "2", "3", "4", "5", "6", "7", "8", "9">>[d + 1]

RECURSIVE Itoa(_)
\* fmt.Sprintf("%d", n) for n >= 0: the decimal digits of n
Itoa(n) == IF n < 10 THEN <<Digit(n)>> ELSE Itoa(n \div 10) \o <<Digit(n % 10)>>

\* --------------------------------------------------------- getConnection
\* A getConnection activation: where it is, the name looked up, and what it
\* returns.
Frame(svc) == [pc |-> "RLock", svc |-> svc, conn |-> NilConn, err |-> NoErr]

\* conn, exists := s.connPool[serviceName]
Lookup(pool, svc) == IF svc \in DOMAIN pool THEN pool[svc] ELSE NilConn
Exists(pool, svc) == svc \in DOMAIN pool

\* the mutant: the second look-up under the write lock is skipped
RecheckNever(pool, svc) == FALSE
\* "Check again in case another goroutine created the connection"
Recheck(pool, svc) == Exists(pool, svc)

\* the mutant: the map is replaced by one holding the new channel only
InsertAlone(pool, svc, c) == (svc :> c)
\* the mutant: the new channel is returned but not stored
InsertNothing(pool, svc, c) == pool
\* s.connPool[serviceName] = conn
Insert(pool, svc, c) == (svc :> c) @@ pool

\* the mutant: a failed construction leaves a nil entry under the name
NewClientFailedCached(pool, svc) == (svc :> NilConn) @@ pool
\* if err != nil { return nil, fmt.Errorf(...) }: the map after a failed
\* grpc.NewClient
NewClientFailed(pool, svc) == pool

\* the mutant: the read lock is kept after the look-up
RUnlockKept(mu) == mu
\* s.connPoolMu.RUnlock()
RUnlock(mu) == [mu EXCEPT !.r = @ - 1]
\* defer s.connPoolMu.Unlock()
Unlock(mu) == [mu EXCEPT !.w = FALSE]

\* One step of getConnection on node n by the goroutine whose activation is
\* f: the outcomes the step can have, each the lock, the map, the
\* construction history and the activation after it.  No outcome: the
\* goroutine is blocked on the lock.
getConnection(n, f) ==
    LET mu == connPoolMu[n]
        pool == connPool[n]
        st == [mu |-> mu, pool |-> pool, dialed |-> dialed[n], f |-> f]
    IN  CASE f.pc = "RLock" ->                     \* s.connPoolMu.RLock()
               IF mu.w THEN {}
               ELSE {[st EXCEPT !.mu.r = mu.r + 1, !.f.pc = "read"]}
          [] f.pc = "read" ->                      \* read; RUnlock(); if exists
               {[st EXCEPT !.mu = RUnlock(mu),
                           !.f = IF Exists(pool, f.svc)
                                   THEN [f EXCEPT !.pc = "ret",
                                                  !.conn = Lookup(pool, f.svc)]
                                   ELSE [f EXCEPT !.pc = "Lock"]]}
          [] f.pc = "Lock" ->                      \* s.connPoolMu.Lock()
               IF mu.w \/ mu.r > 0 THEN {}
               ELSE {[st EXCEPT !.mu.w = TRUE, !.f.pc = "check"]}
          [] f.pc = "check" ->                     \* re-check, grpc.NewClient
               IF Recheck(pool, f.svc)
                 THEN {[st EXCEPT !.f = [f EXCEPT !.pc = "Unlock",
                                                  !.conn = Lookup(pool, f.svc)]]}
                 ELSE LET c == Len(dialed[n]) + 1
                      IN  { [st EXCEPT !.dialed = Append(@, f.svc),
                                       !.pool = Insert(@, f.svc, c),
                                       !.f = [f EXCEPT !.pc = "Unlock",
                                                       !.conn = c]],
                            [st EXCEPT !.pool = NewClientFailed(@, f.svc),
                                       !.f = [f EXCEPT !.pc = "Unlock",
                                                       !.err = ErrConnect]] }
          [] f.pc = "Unlock" ->                    \* defer s.connPoolMu.Unlock()
               {[st EXCEPT !.mu = Unlock(mu), !.f.pc = "ret"]}
          [] OTHER -> {}

\* the registry of node n after a step of getConnection with outcome o
Registry(n, o) ==
    /\ connPoolMu' = [connPoolMu EXCEPT ![n] = o.mu]
    /\ connPool' = [connPool EXCEPT ![n] = o.pool]
    /\ dialed' = [dialed EXCEPT ![n] = o.dialed]

\* ------------------------------------------------- main: the -out flag
\* A flag value is a string, here the sequence of its characters.
RECURSIVE Str(_)
Str(cs) == IF cs = <<>> THEN "" ELSE Head(cs) \o Str(Tail(cs))

RECURSIVE Split(_, _)
\* strings.Split(s, sep) for a one-character sep: the pieces of s between
\* the occurrences of sep, so always at least one piece.
Split(s, sep) ==
    IF \E i \in 1 .. Len(s) : s[i] = sep
      THEN LET i == CHOOSE j \in 1 .. Len(s) :
                       /\ s[j] = sep
                       /\ \A k \in 1 .. j - 1 : s[k] # sep
           IN  <<SubSeq(s, 1, i - 1)>> \o Split(SubSeq(s, i + 1, Len(s)), sep)
      ELSE <<s>>

\* processedOutServices := []string{}
\* if split := strings.Split(*outServices, ","); len(split) > 1 { ... = split }
processedOutServices(flag) ==
    LET split == Split(flag, ",")
    IN  IF Len(split) > 1
          THEN [i \in 1 .. Len(split) |-> Str(split[i])]
          ELSE <<>>

\* Values of -out the nodes are started with: the frontend with one or two
\* names, B with none or one, C with none.
OutFlags ==
    { [A |-> a, B |-> b, C |-> <<>>] :
        a \in { <<"B">>, <<"B", ",", "C">>, <<"B", ",", "B">> },
        b \in { <<>>, <<"C">> } }

\* ------------------------------------------------------ main: Preconnect
\* getConnection run to completion by a goroutine that has the node to
\* itself (no other user of the registry exists before main serves): the
\* registry, the construction history and the error it returns.  ok tells
\* whether grpc.NewClient succeeds if it is reached.
getConnectionAlone(st, svc, ok) ==
    IF Exists(st.pool, svc) \/ Recheck(st.pool, svc)
      THEN [st EXCEPT !.log = Append(@, [svc |-> svc, ok |-> TRUE])]
      ELSE IF ok
             THEN [pool |-> Insert(st.pool, svc, Len(st.dialed) + 1),
                   dialed |-> Append(st.dialed, svc),
                   log |-> Append(st.log, [svc |-> svc, ok |-> TRUE])]
             ELSE [st EXCEPT !.log = Append(@, [svc |-> svc, ok |-> FALSE])]

RECURSIVE PreconnectLoopAbort(_, _, _, _)
\* the mutant: the pass stops at the first peer it cannot connect to
PreconnectLoopAbort(st, out, oks, i) ==
    IF i > Len(out) THEN st
    ELSE LET nx == getConnectionAlone(st, out[i], oks[i])
         IN  IF nx.log[Len(nx.log)].ok
               THEN PreconnectLoopAbort(nx, out, oks, i + 1)
               ELSE nx

RECURSIVE PreconnectLoop(_, _, _, _)
\* for _, svc := range s.outServices { getConnection(svc); log the outcome }
PreconnectLoop(st, out, oks, i) ==
    IF i > Len(out) THEN st
    ELSE PreconnectLoop(getConnectionAlone(st, out[i], oks[i]), out, oks, i + 1)

\* s.Preconnect() run by main on the freshly built Service whose peer list
\* is out, after which the servers are started.
PreconnectPass(n, out) ==
    \E oks \in [1 .. Len(out) -> BOOLEAN] :
       LET st == PreconnectLoop([pool |-> connPool[n], dialed |-> dialed[n],
                                 log |-> <<>>], out, oks, 1)
       IN  /\ connPool' = [connPool EXCEPT ![n] = st.pool]
           /\ dialed' = [dialed EXCEPT ![n] = st.dialed]
           /\ boot' = [boot EXCEPT ![n].pc = "serving", ![n].log = st.log]

\* main: svc.Preconnect(), then the servers are started.
Preconnect(n) ==
    /\ boot[n].pc = "new"
    /\ PreconnectPass(n, outServices[n])
    /\ UNCHANGED <<config, caller, connPoolMu, http, inv, task, now>>

\* main from its flags to serving: parse -out, build the Service with the
\* parsed peer list, preconnect, start the servers.  Nothing outside the
\* process observes the steps in between.
main(n) ==
    /\ boot[n].pc = "flag"
    /\ outServices' = [outServices EXCEPT
                         ![n] = processedOutServices(boot[n].out)]
    /\ PreconnectPass(n, processedOutServices(boot[n].out))
    /\ UNCHANGED <<processingDelay, caller, connPoolMu, http, inv, task, now>>

Serving(n) == boot[n].pc = "serving"

\* ------------------------------------------------------------ trace events
\* Tracer.LogTrace: one structured record per call.
LogTrace(operation, benchID, traceID, relatedService) ==
    [op |-> operation, benchId |-> benchID, traceId |-> traceID,
     related |-> relatedService]

\* ---------------------------------------------------------------- Process
Message(from, benchID, traceID, depth) ==
    [From |-> from, BenchId |-> benchID, TraceId |-> traceID, Depth |-> depth]

\* A Process invocation on node n with request req under a context whose
\* deadline is d.
NewInv(n, req, d) ==
    [node |-> n, req |-> req, deadline |-> d, pc |-> "start", wake |-> 0,
     wg |-> 0, responses |-> <<>>, errors |-> <<>>, closed |-> FALSE,
     panic |-> FALSE, errlog |-> <<>>, events |-> <<>>,
     reply |-> NilMsg, err |-> NoErr, doneAt |-> 0]

\* the mutant: the depth is forwarded as received
ThisDepthSame(req) == req.Depth
\* thisDepth := req.Depth + 1
ThisDepth(req) == req.Depth + 1

\* len(s.outServices) == 0
IsLeaf(n) == Len(outServices[n]) = 0

\* the mutant: the depth of the request is echoed
LeafReplySameDepth(n, req) == [From |-> n, BenchId |-> req.BenchId,
                               TraceId |-> req.TraceId, Depth |-> req.Depth]
\* the reply of a leaf
LeafReply(n, req) == Message(n, req.BenchId, req.TraceId, ThisDepth(req))

\* the mutant: the depth is not reset
BranchReplyDepth(n, req) == [From |-> n, BenchId |-> req.BenchId,
                             TraceId |-> req.TraceId, Depth |-> req.Depth + 1]
\* the reply of a node that fanned out
BranchReply(n, req) == Message(n, req.BenchId, req.TraceId, 0)

\* the mutant: the first collected error is returned
ProcessErrFirst(errs) == IF errs = <<>> THEN NoErr ELSE Head(errs)
\* the error Process returns with its reply: nil on both return paths
ProcessErr(errs) == NoErr

\* the mutant: channels that buffer one value
ChanCapOne(n) == 1
\* the mutant: unbuffered channels
ChanCapZero(n) == 0
\* make(chan ..., len(s.outServices))
ChanCap(n) == Len(outServices[n])

\* the mutant: the barrier opens when the first goroutine is done
WaitReturnsFirst(wg) == wg <= 1
\* wg.Wait() returns
WaitReturns(wg) == wg = 0

\* s.tracer.LogTrace("process_start", ...); the sleep begins
ProcessStart(p) ==
    /\ inv[p].pc = "start"
    /\ inv' = [inv EXCEPT
                 ![p].events = Append(@, LogTrace("process_start",
                     inv[p].req.BenchId, inv[p].req.TraceId, inv[p].req.From)),
                 ![p].wake = now + processingDelay[inv[p].node],
                 ![p].pc = "sleep"]
    /\ UNCHANGED <<config, caller, connPool, connPoolMu, dialed, boot, http, task, now>>

\* time.Sleep returns on a leaf: process_end and the reply
ProcessLeaf(p) ==
    LET n == inv[p].node
        req == inv[p].req
    IN  /\ inv[p].pc = "sleep"
        /\ now >= inv[p].wake
        /\ IsLeaf(n)
        /\ inv' = [inv EXCEPT
                     ![p].events = Append(@, LogTrace("process_end",
                                     req.BenchId, req.TraceId, req.From)),
                     ![p].reply = LeafReply(n, req),
                     ![p].err = ProcessErr(<<>>),
                     ![p].doneAt = now,
                     ![p].pc = "done"]
        /\ UNCHANGED <<config, caller, connPool, connPoolMu, dialed, boot, http,
                       task, now>>

\* The goroutine started for the i-th peer of the invocation.
NewTask(n, i) ==
    [pc |-> "req_start", svc |-> outServices[n][i], f |-> Frame(outServices[n][i]),
     calls |-> 0, sent |-> NilMsg, resp |-> NilMsg, err |-> NoErr]

\* the mutant: the loop stops one peer short
FanOutAllButLast(n) == 1 .. Len(outServices[n]) - 1
\* for _, outService := range s.outServices: the peers a goroutine is started for
FanOut(n) == 1 .. Len(outServices[n])

\* the mutant: the goroutines are started without waiting for the sleep
ProcessFanOutEarly(p) ==
    LET n == inv[p].node
        kids == { p \o <<i>> : i \in 1 .. Len(outServices[n]) }
    IN  /\ inv[p].pc = "sleep"
        /\ ~IsLeaf(n)
        /\ inv' = [inv EXCEPT ![p].wg = Len(outServices[n]),
                              ![p].pc = "wait"]
        /\ task' = [k \in kids |->
                      [pc |-> "req_start", svc |-> outServices[n][k[Len(k)]],
                       f |-> Frame(outServices[n][k[Len(k)]]),
                       calls |-> 0, sent |-> NilMsg, resp |-> NilMsg,
                       err |-> NoErr]] @@ task
        /\ UNCHANGED <<config, caller, connPool, connPoolMu, dialed, boot, http, now>>

\* time.Sleep returns on a node with peers: the channels are made and one
\* goroutine per peer is started (wg.Add(1); go func(...)).
ProcessFanOut(p) ==
    LET n == inv[p].node
        kids == { p \o <<i>> : i \in FanOut(n) }
    IN  /\ inv[p].pc = "sleep"
        /\ now >= inv[p].wake
        /\ ~IsLeaf(n)
        /\ inv' = [inv EXCEPT ![p].wg = Len(outServices[n]),
                              ![p].pc = "wait"]
        /\ task' = [k \in kids |-> NewTask(n, k[Len(k)])] @@ task
        /\ UNCHANGED <<config, caller, connPool, connPoolMu, dialed, boot, http, now>>

\* wg.Wait() returns; close both channels; log every collected error;
\* process_end and the reply.
ProcessJoin(p) ==
    LET n == inv[p].node
        req == inv[p].req
    IN  /\ inv[p].pc = "wait"
        /\ WaitReturns(inv[p].wg)
        /\ inv' = [inv EXCEPT
                     ![p].closed = TRUE,
                     ![p].errlog = inv[p].errors,
                     ![p].events = Append(@, LogTrace("process_end",
                                     req.BenchId, req.TraceId, req.From)),
                     ![p].reply = BranchReply(n, req),
                     ![p].err = ProcessErr(inv[p].errors),
                     ![p].doneAt = now,
                     ![p].pc = "done"]
        /\ UNCHANGED <<config, caller, connPool, connPoolMu, dialed, boot, http,
                       task, now>>

\* ------------------------------------------- fan-out goroutine, callService
Parent(p) == SubSeq(p, 1, Len(p) - 1)

\* the mutant: the benchId of the request is not the one handed in
CallRequestDefaultBench(n, benchID, traceID, depth) ==
    [From |-> n, BenchId |-> "default", TraceId |-> traceID, Depth |-> depth]
\* req := &pb.Message{From: s.name, BenchId: ..., TraceId: ..., Depth: depth}
CallRequest(n, benchID, traceID, depth) == Message(n, benchID, traceID, depth)

\* the mutant: every hop is given a timeout of its own
CallDeadlineFresh(d) == now + Timeout
\* the deadline of the context handed to client.Process: that of Process's ctx
CallDeadline(d) == d

\* the mutant: a context that never expires
ExpiredNever(d) == FALSE
\* ctx.Err() == context.DeadlineExceeded
Expired(d) == now >= d

\* the mutant: a goroutine starts its call when the goroutines started
\* before it are done, as if the loop made the calls itself
TaskReqStartSerial(p) ==
    LET q == Parent(p)
    IN  /\ task[p].pc = "req_start"
        /\ \A k \in DOMAIN task :
              (Parent(k) = q /\ k[Len(k)] < p[Len(p)]) => task[k].pc = "done"
        /\ inv' = [inv EXCEPT
                     ![q].events = Append(@, LogTrace("req_start",
                         inv[q].req.BenchId, inv[q].req.TraceId, task[p].svc))]
        /\ task' = [task EXCEPT ![p].pc = "conn"]
        /\ UNCHANGED <<config, caller, connPool, connPoolMu, dialed, boot, http, now>>

\* the mutant: the goroutine goes to callService without logging req_start
TaskReqStartSilent(p) ==
    /\ task[p].pc = "req_start"
    /\ task' = [task EXCEPT ![p].pc = "conn"]
    /\ UNCHANGED <<config, caller, connPool, connPoolMu, dialed, boot, http,
                   inv, now>>

\* s.tracer.LogTrace("req_start", ...), then callService enters getConnection
TaskReqStart(p) ==
    LET q == Parent(p)
    IN  /\ task[p].pc = "req_start"
        /\ inv' = [inv EXCEPT
                     ![q].events = Append(@, LogTrace("req_start",
                         inv[q].req.BenchId, inv[q].req.TraceId, task[p].svc))]
        /\ task' = [task EXCEPT ![p].pc = "conn"]
        /\ UNCHANGED <<config, caller, connPool, connPoolMu, dialed, boot, http, now>>

\* conn, err := s.getConnection(serviceName)
TaskConn(p) ==
    /\ task[p].pc = "conn"
    /\ task[p].f.pc # "ret"
    /\ \E o \in getConnection(inv[Parent(p)].node, task[p].f) :
          /\ Registry(inv[Parent(p)].node, o)
          /\ task' = [task EXCEPT ![p].f = o.f]
    /\ UNCHANGED <<config, caller, boot, http, inv, now>>

\* if err != nil { return nil, err }
TaskConnFailed(p) ==
    /\ task[p].pc = "conn"
    /\ task[p].f.pc = "ret"
    /\ task[p].f.err # NoErr
    /\ task' = [task EXCEPT ![p].err = task[p].f.err, ![p].pc = "result"]
    /\ UNCHANGED <<config, caller, connPool, connPoolMu, dialed, boot, http, inv, now>>

\* return client.Process(ctx, req): the call is refused at once when the
\* context has expired, fails when the peer cannot be reached, and otherwise
\* starts Process on the peer under the caller's deadline.
TaskCall(p) ==
    LET q == Parent(p)
        n == inv[q].node
        req == CallRequest(n, inv[q].req.BenchId, inv[q].req.TraceId,
                           ThisDepth(inv[q].req))
        d == CallDeadline(inv[q].deadline)
    IN  /\ task[p].pc = "conn"
        /\ task[p].f.pc = "ret"
        /\ task[p].f.err = NoErr
        /\ \/ /\ Expired(d)
              /\ task' = [task EXCEPT ![p].calls = @ + 1, ![p].sent = req,
                                      ![p].err = ErrDeadline,
                                      ![p].pc = "result"]
              /\ UNCHANGED inv
           \/ /\ ~Expired(d)
              /\ task' = [task EXCEPT ![p].calls = @ + 1, ![p].sent = req,
                                      ![p].err = ErrUnavailable,
                                      ![p].pc = "result"]
              /\ UNCHANGED inv
           \/ /\ ~Expired(d)
              /\ Serving(task[p].svc)
              /\ task' = [task EXCEPT ![p].calls = @ + 1, ![p].sent = req,
                                      ![p].pc = "rpc"]
              /\ inv' = (p :> NewInv(task[p].svc, req, d)) @@ inv
        /\ UNCHANGED <<config, caller, connPool, connPoolMu, dialed, boot, http, now>>

\* the peer's reply arrives before the deadline
TaskReply(p) ==
    /\ task[p].pc = "rpc"
    /\ inv[p].pc = "done"
    /\ ~Expired(inv[p].deadline)
    /\ task' = [task EXCEPT ![p].resp = inv[p].reply, ![p].err = inv[p].err,
                            ![p].pc = "result"]
    /\ UNCHANGED <<config, caller, connPool, connPoolMu, dialed, boot, http, inv, now>>

\* the deadline passes first: client.Process returns DeadlineExceeded
TaskTimeout(p) ==
    /\ task[p].pc = "rpc"
    /\ Expired(inv[p].deadline)
    /\ task' = [task EXCEPT ![p].err = ErrDeadline, ![p].pc = "result"]
    /\ UNCHANGED <<config, caller, connPool, connPoolMu, dialed, boot, http, inv, now>>

\* if err != nil { errors <- err } else if resp != nil { responses <- resp;
\* LogTrace("req_resp", ...) }.  A send blocks while the channel is full and
\* panics when it is closed.
TaskResult(p) ==
    LET q == Parent(p)
        cap == ChanCap(inv[q].node)
    IN  /\ task[p].pc = "result"
        /\ IF task[p].err # NoErr
             THEN IF inv[q].closed
                    THEN inv' = [inv EXCEPT ![q].panic = TRUE]
                    ELSE /\ Len(inv[q].errors) < cap
                         /\ inv' = [inv EXCEPT
                                      ![q].errors = Append(@, task[p].err)]
             ELSE IF task[p].resp # NilMsg
                    THEN IF inv[q].closed
                           THEN inv' = [inv EXCEPT ![q].panic = TRUE]
                           ELSE /\ Len(inv[q].responses) < cap
                                /\ inv' = [inv EXCEPT
                                     ![q].responses = Append(@, task[p].resp),
                                     ![q].events = Append(@, LogTrace("req_resp",
                                         task[p].resp.BenchId,
                                         task[p].resp.TraceId,
                                         task[p].resp.From))]
                    ELSE UNCHANGED inv
        /\ task' = [task EXCEPT ![p].pc = "exit"]
        /\ UNCHANGED <<config, caller, connPool, connPoolMu, dialed, boot, http, now>>

\* defer wg.Done()
TaskDone(p) ==
    LET q == Parent(p)
    IN  /\ task[p].pc = "exit"
        /\ inv' = [inv EXCEPT ![q].wg = @ - 1]
        /\ task' = [task EXCEPT ![p].pc = "done"]
        /\ UNCHANGED <<config, caller, connPool, connPoolMu, dialed, boot, http, now>>

\* ------------------------------------------------------------ handle_http
\* the mutant: the body is used whatever the method
BenchIdBody(method, body) == body
\* the benchId of a request the handler accepts
BenchIdOf(method, body) == IF method = "GET" THEN "default" ELSE body

\* the mutant: no method is turned away
SupportedAny(method) == TRUE
\* smethod == fasthttp.MethodGet || smethod == fasthttp.MethodPost
Supported(method) == method \in {"GET", "POST"}

\* A request arrives: traceId from the clock, benchId from the method; any
\* other method is answered 405; otherwise the 3 s context, http_start and
\* the call of Process.
handle_http(method, body) ==
    LET r == Len(http) + 1
        traceId == Itoa(now)
        benchId == BenchIdOf(method, body)
        h == [method |-> method, body |-> body, start |-> now,
              traceId |-> traceId, benchId |-> "", deadline |-> 0,
              events |-> <<>>, pc |-> "done", status |-> 0,
              response |-> [traceId |-> <<>>, benchId |-> "",
                            serviceTime |-> 0],
              errBody |-> "", end |-> now]
    IN  /\ now <= MaxArrival
        /\ Serving(Frontend)
        /\ IF ~Supported(method)
             THEN /\ http' = Append(http,
                        [h EXCEPT !.status = StatusMethodNotAllowed,
                                  !.errBody = "Unsupported method"])
                  /\ UNCHANGED inv
             ELSE /\ http' = Append(http,
                        [h EXCEPT !.benchId = benchId,
                                  !.deadline = now + Timeout,
                                  !.events = <<LogTrace("http_start", benchId,
                                                        traceId, "")>>,
                                  !.pc = "process"])
                  /\ inv' = (<<r>> :> NewInv(Frontend,
                                Message(Frontend, benchId, traceId, 0),
                                now + Timeout)) @@ inv
        /\ UNCHANGED <<config, caller, connPool, connPoolMu, dialed, boot, task, now>>

\* Process has returned: 500 with the error text, or http_end and the JSON
\* response with status 200.
HTTPReturn(r) ==
    LET h == http[r]
        i == inv[<<r>>]
    IN  /\ h.pc = "process"
        /\ i.pc = "done"
        /\ IF i.err # NoErr
             THEN http' = [http EXCEPT
                             ![r].status = StatusInternalServerError,
                             ![r].errBody = i.err,
                             ![r].end = now,
                             ![r].pc = "done"]
             ELSE http' = [http EXCEPT
                             ![r].events = Append(@, LogTrace("http_end",
                                              h.benchId, h.traceId, "")),
                             ![r].status = StatusOK,
                             ![r].response = [traceId |-> h.traceId,
                                              benchId |-> h.benchId,
                                              serviceTime |-> now - h.start],
                             ![r].end = now,
                             ![r].pc = "done"]
        /\ UNCHANGED <<config, caller, connPool, connPoolMu, dialed, boot, inv, task,
                       now>>

\* ------------------------------------------------------------ the system
\* After NewService on every node: empty registries, nothing running.
Init ==
    /\ outServices \in Topologies
    /\ processingDelay \in DelayConfigs
    /\ connPool = [n \in Nodes |-> [x \in {} |-> NilConn]]
    /\ connPoolMu = [n \in Nodes |-> [r |-> 0, w |-> FALSE]]
    /\ dialed = [n \in Nodes |-> <<>>]
    /\ boot = [n \in Nodes |-> [pc |-> "new", log |-> <<>>]]
    /\ http = <<>>
    /\ inv = [x \in {} |-> NewInv("", NilMsg, 0)]
    /\ task = [x \in {} |-> NewTask(Frontend, 1)]
    /\ caller = <<>>
    /\ now = 0

\* A step of some goroutine of the system.
Step ==
    \/ \E n \in Nodes : main(n)
    \/ \E n \in Nodes : Preconnect(n)
    \/ \E r \in DOMAIN http : HTTPReturn(r)
    \/ \E p \in DOMAIN inv : ProcessStart(p)
    \/ \E p \in DOMAIN inv : ProcessLeaf(p)
    \/ \E p \in DOMAIN inv : ProcessFanOut(p)
    \/ \E p \in DOMAIN inv : ProcessJoin(p)
    \/ \E p \in DOMAIN task : TaskReqStart(p)
    \/ \E p \in DOMAIN task : TaskConn(p)
    \/ \E p \in DOMAIN task : TaskConnFailed(p)
    \/ \E p \in DOMAIN task : TaskCall(p)
    \/ \E p \in DOMAIN task : TaskReply(p)
    \/ \E p \in DOMAIN task : TaskTimeout(p)
    \/ \E p \in DOMAIN task : TaskResult(p)
    \/ \E p \in DOMAIN task : TaskDone(p)

\* The clock advances when every goroutine is blocked (asleep, or waiting
\* for a reply, the barrier or the deadline): computation takes no time.
Tick ==
    /\ now < MaxTime
    /\ ~ENABLED Step
    /\ now' = now + 1
    /\ UNCHANGED <<config, caller, connPool, connPoolMu, dialed, boot, http, inv, task>>

\* A request reaches the frontend.
Ingress ==
    \E m \in Methods, b \in Bodies :
       /\ (m # "POST" => b = "")
       /\ Len(http) < MaxReq
       /\ handle_http(m, b)

Next ==
    \/ \E n \in Nodes : Preconnect(n)
    \/ Ingress
    \/ \E r \in DOMAIN http : HTTPReturn(r)
    \/ \E p \in DOMAIN inv : ProcessStart(p)
    \/ \E p \in DOMAIN inv : ProcessLeaf(p)
    \/ \E p \in DOMAIN inv : ProcessFanOut(p)
    \/ \E p \in DOMAIN inv : ProcessJoin(p)
    \/ \E p \in DOMAIN task : TaskReqStart(p)
    \/ \E p \in DOMAIN task : TaskConn(p)
    \/ \E p \in DOMAIN task : TaskConnFailed(p)
    \/ \E p \in DOMAIN task : TaskCall(p)
    \/ \E p \in DOMAIN task : TaskReply(p)
    \/ \E p \in DOMAIN task : TaskTimeout(p)
    \/ \E p \in DOMAIN task : TaskResult(p)
    \/ \E p \in DOMAIN task : TaskDone(p)
    \/ Tick

Spec == Init /\ [][Next]_vars

\* ------------------------------------------- the registry used directly
\* Goroutines of one node (the frontend) that call getConnection with names
\* of their choosing, concurrently, each recording what its calls returned.
RECURSIVE CallsMade(_)
\* the look-ups started so far by callers 1 .. k
CallsMade(k) ==
    IF k = 0 THEN 0
    ELSE CallsMade(k - 1) + Len(caller[k].got)
         + (IF caller[k].f.pc = "idle" THEN 0 ELSE 1)

CallerEnter(k, svc) ==
    /\ caller[k].f.pc = "idle"
    /\ CallsMade(Len(caller)) < MaxCalls
    /\ caller' = [caller EXCEPT ![k].f = Frame(svc)]
    /\ UNCHANGED <<config, connPool, connPoolMu, dialed, boot, http, inv,
                   task, now>>

CallerStep(k) ==
    /\ caller[k].f.pc \notin {"idle", "ret"}
    /\ \E o \in getConnection(Frontend, caller[k].f) :
          /\ Registry(Frontend, o)
          /\ caller' = [caller EXCEPT ![k].f = o.f]
    /\ UNCHANGED <<config, boot, http, inv, task, now>>

CallerReturn(k) ==
    /\ caller[k].f.pc = "ret"
    /\ caller' = [caller EXCEPT
                    ![k].got = Append(@, [svc |-> caller[k].f.svc,
                                          conn |-> caller[k].f.conn,
                                          err |-> caller[k].f.err]),
                    ![k].f = [Frame("") EXCEPT !.pc = "idle"]]
    /\ UNCHANGED <<config, connPool, connPoolMu, dialed, boot, http, inv,
                   task, now>>

InitConn ==
    /\ outServices = [n \in Nodes |-> <<>>]
    /\ processingDelay = [n \in Nodes |-> 0]
    /\ connPool = [n \in Nodes |-> [x \in {} |-> NilConn]]
    /\ connPoolMu = [n \in Nodes |-> [r |-> 0, w |-> FALSE]]
    /\ dialed = [n \in Nodes |-> <<>>]
    /\ boot = [n \in Nodes |-> [pc |-> "new", log |-> <<>>]]
    /\ http = <<>>
    /\ inv = [x \in {} |-> NewInv("", NilMsg, 0)]
    /\ task = [x \in {} |-> NewTask(Frontend, 1)]
    /\ caller = [k \in 1 .. MaxCallers |->
                   [f |-> [Frame("") EXCEPT !.pc = "idle"], got |-> <<>>]]
    /\ now = 0

NextConn ==
    \/ \E k \in DOMAIN caller, svc \in {"B", "C"} : CallerEnter(k, svc)
    \/ \E k \in DOMAIN caller : CallerStep(k)
    \/ \E k \in DOMAIN caller : CallerReturn(k)

SpecConn == InitConn /\ [][NextConn]_vars

\* --------------------------------------------- the nodes started by main
\* Every node is a process started with its -out flag and its delay.
InitMain ==
    /\ \E flags \in OutFlags :
          boot = [n \in Nodes |-> [pc |-> "flag", log |-> <<>>, out |-> flags[n]]]
    /\ outServices = [n \in Nodes |-> <<>>]
    /\ processingDelay \in DelayConfigs
    /\ connPool = [n \in Nodes |-> [x \in {} |-> NilConn]]
    /\ connPoolMu = [n \in Nodes |-> [r |-> 0, w |-> FALSE]]
    /\ dialed = [n \in Nodes |-> <<>>]
    /\ http = <<>>
    /\ inv = [x \in {} |-> NewInv("", NilMsg, 0)]
    /\ task = [x \in {} |-> NewTask(Frontend, 1)]
    /\ caller = <<>>
    /\ now = 0

NextMain ==
    \/ \E n \in Nodes : main(n)
    \/ Ingress
    \/ \E r \in DOMAIN http : HTTPReturn(r)
    \/ \E p \in DOMAIN inv : ProcessStart(p)
    \/ \E p \in DOMAIN inv : ProcessLeaf(p)
    \/ \E p \in DOMAIN inv : ProcessFanOut(p)
    \/ \E p \in DOMAIN inv : ProcessJoin(p)
    \/ \E p \in DOMAIN task : TaskReqStart(p)
    \/ \E p \in DOMAIN task : TaskConn(p)
    \/ \E p \in DOMAIN task : TaskConnFailed(p)
    \/ \E p \in DOMAIN task : TaskCall(p)
    \/ \E p \in DOMAIN task : TaskReply(p)
    \/ \E p \in DOMAIN task : TaskTimeout(p)
    \/ \E p \in DOMAIN task : TaskResult(p)
    \/ \E p \in DOMAIN task : TaskDone(p)
    \/ Tick

SpecMain == InitMain /\ [][NextMain]_vars

\* ------------------------------------------ a frontend with many clients
\* A frontend without peers, with or without a delay, that several requests
\* reach; the server runs one handle_http goroutine per request, so a
\* request can arrive while earlier ones are being served.
InitIngress ==
    /\ outServices = [n \in Nodes |-> <<>>]
    /\ processingDelay \in { d \in DelayConfigs : d["B"] = 0 /\ d["A"] < Timeout }
    /\ connPool = [n \in Nodes |-> [x \in {} |-> NilConn]]
    /\ connPoolMu = [n \in Nodes |-> [r |-> 0, w |-> FALSE]]
    /\ dialed = [n \in Nodes |-> <<>>]
    /\ boot = [n \in Nodes |-> [pc |-> "new", log |-> <<>>]]
    /\ http = <<>>
    /\ inv = [x \in {} |-> NewInv("", NilMsg, 0)]
    /\ task = [x \in {} |-> NewTask(Frontend, 1)]
    /\ caller = <<>>
    /\ now = 0

\* One more request reaches the frontend.
IngressMany ==
    \E m \in Methods, b \in Bodies :
       /\ (m # "POST" => b = "")
       /\ Len(http) < MaxBurst
       /\ handle_http(m, b)

NextIngress ==
    \/ \E n \in Nodes : Preconnect(n)
    \/ IngressMany
    \/ \E r \in DOMAIN http : HTTPReturn(r)
    \/ \E p \in DOMAIN inv : ProcessStart(p)
    \/ \E p \in DOMAIN inv : ProcessLeaf(p)
    \/ Tick

SpecIngress == InitIngress /\ [][NextIngress]_vars

\* The direct callers under the scheduler's guarantee that some goroutine
\* that can run does run.
FairSpecConn ==
    /\ SpecConn
    /\ WF_vars(\E k \in DOMAIN caller : CallerStep(k))
    /\ WF_vars(\E k \in DOMAIN caller : CallerReturn(k))

\* The same system under the scheduler's guarantee that a goroutine that can
\* run does run, and that time passes.
FairSpec == Spec /\ WF_vars(Step) /\ WF_vars(Tick)

\* ================================================================ claims
Range(s) == { s[i] : i \in DOMAIN s }
Kids(p) == { k \in DOMAIN task : Parent(k) = p }
Returned(p) == inv[p].pc = "done"
Failed(k) == task[k].err # NoErr
\* what the look-ups of svc by the direct callers have returned so far
Results(svc) ==
    UNION { { g \in Range(caller[k].got) : g.svc = svc } : k \in DOMAIN caller }
    \cup { [svc |-> caller[k].f.svc, conn |-> caller[k].f.conn,
            err |-> caller[k].f.err] :
             k \in { j \in DOMAIN caller : /\ caller[j].f.pc \in {"Unlock", "ret"}
                                           /\ caller[j].f.svc = svc } }

Constructions(n, svc) == { i \in 1 .. Len(dialed[n]) : dialed[n][i] = svc }

\* C1: however many goroutines look up the same unseen peer name at once, at
\* most one channel is constructed for the name, and every look-up of the
\* name that returns without error (those and all later ones) returns that
\* one channel, which is the one the registry holds.
Thm_C1 ==
    \A svc \in Nodes :
       /\ Cardinality(Constructions(Frontend, svc)) <= 1
       /\ \A g \in Results(svc) :
            g.err = NoErr =>
               /\ Exists(connPool[Frontend], svc)
               /\ g.conn = connPool[Frontend][svc]
               /\ g.conn # NilConn
               /\ Constructions(Frontend, svc) = {g.conn}

\* A goroutine that missed "B" on the fast path holds the write lock and is
\* about to look again, while the channel has been constructed, and
\* returned, by another goroutine in between.
Wit_C1 ==
    \E k1, k2 \in DOMAIN caller :
       /\ k1 # k2
       /\ caller[k1].f.pc = "check" /\ caller[k1].f.svc = "B"
       /\ Exists(connPool[Frontend], "B")
       /\ \E g \in Range(caller[k2].got) :
            g.svc = "B" /\ g.err = NoErr /\ g.conn = connPool[Frontend]["B"]

\* C2: whatever the input, the peers and the downstream outcomes, Process
\* returns a reply together with a nil error.
Thm_C2 ==
    \A p \in DOMAIN inv :
       Returned(p) => inv[p].err = NoErr /\ inv[p].reply # NilMsg

\* Process returned although one peer's connection could not be constructed
\* and the call to another peer failed.
Wit_C2 ==
    \E p \in DOMAIN inv :
       /\ Returned(p)
       /\ ErrConnect \in Range(inv[p].errors)
       /\ \E e \in Range(inv[p].errors) : e # ErrConnect

\* C3: a Process invocation on a node with peers starts callService exactly
\* once for each configured peer, whichever of them fail; each of these makes
\* at most one remote call, and makes it unless the connection could not be
\* constructed.
Thm_C3 ==
    \A p \in DOMAIN inv :
       LET n == inv[p].node
       IN  /\ inv[p].pc \in {"wait", "done"} /\ ~IsLeaf(n) =>
                /\ Kids(p) = { p \o <<i>> : i \in 1 .. Len(outServices[n]) }
                /\ \A i \in 1 .. Len(outServices[n]) :
                     task[p \o <<i>>].svc = outServices[n][i]
           /\ Returned(p) =>
                \A k \in Kids(p) :
                   /\ task[k].pc = "done"
                   /\ task[k].f.pc = "ret"
                   /\ task[k].calls = (IF task[k].f.err = NoErr THEN 1 ELSE 0)

\* A fan-out to two peers has returned: the connection to one could not be
\* constructed, the other was called.
Wit_C3 ==
    \E p \in DOMAIN inv :
       /\ Returned(p)
       /\ Len(outServices[inv[p].node]) = 2
       /\ \E k1, k2 \in Kids(p) :
            /\ task[k1].f.err = ErrConnect
            /\ task[k2].calls = 1

\* C4: every Process invocation that starts eventually returns: from some
\* point on, every invocation that has started has returned (invocations are
\* started finitely often, so none is left waiting for ever).
Thm_C4 == <>[](\A p \in DOMAIN inv : Returned(p))

\* An invocation has returned after the deadline cut short a call it made.
Wit_C4 ==
    \E p \in DOMAIN inv :
       /\ Returned(p)
       /\ \E k \in Kids(p) : task[k].err = ErrDeadline /\ k \in DOMAIN inv

\* C5: on a leaf, Process replies with origin = the node, the input's benchId
\* and traceId and depth = input depth + 1; it starts no fan-out goroutine,
\* so it makes no downstream call and no connection look-up: the registry of
\* the node is never touched.
Thm_C5 ==
    \A p \in DOMAIN inv :
       LET n == inv[p].node
       IN  IsLeaf(n) =>
             /\ Kids(p) = {}
             /\ connPool[n] = [x \in {} |-> NilConn]
             /\ dialed[n] = <<>>
             /\ connPoolMu[n] = [r |-> 0, w |-> FALSE]
             /\ Returned(p) =>
                  inv[p].reply = [From |-> n,
                                  BenchId |-> inv[p].req.BenchId,
                                  TraceId |-> inv[p].req.TraceId,
                                  Depth |-> inv[p].req.Depth + 1]

\* A leaf two hops below the frontend has replied.
Wit_C5 ==
    \E p \in DOMAIN inv :
       /\ Returned(p) /\ IsLeaf(inv[p].node)
       /\ inv[p].req.Depth = 2 /\ inv[p].reply.Depth = 3

\* C6: on a node with peers, Process replies with origin = the node, the
\* input's benchId and traceId and depth = 0, whatever the input depth and
\* however many downstream calls failed.
Thm_C6 ==
    \A p \in DOMAIN inv :
       LET n == inv[p].node
       IN  Returned(p) /\ ~IsLeaf(n) =>
             inv[p].reply = [From |-> n,
                             BenchId |-> inv[p].req.BenchId,
                             TraceId |-> inv[p].req.TraceId,
                             Depth |-> 0]

\* A node with peers, one hop below the frontend, has replied after its
\* downstream call failed.
Wit_C6 ==
    \E p \in DOMAIN inv :
       /\ Returned(p) /\ ~IsLeaf(inv[p].node)
       /\ inv[p].req.Depth = 1
       /\ inv[p].errors # <<>>

\* the ingress request at the root of the call tree p belongs to
Root(p) == http[p[1]]

\* C7: in one call tree every downstream request, every reply and every trace
\* event carries the benchId and the traceId assigned at ingress.
Thm_C7 ==
    /\ \A p \in DOMAIN inv :
         LET b == Root(p).benchId
             t == Root(p).traceId
         IN  /\ inv[p].req.BenchId = b /\ inv[p].req.TraceId = t
             /\ Returned(p) =>
                  inv[p].reply.BenchId = b /\ inv[p].reply.TraceId = t
             /\ \A e \in Range(inv[p].events) : e.benchId = b /\ e.traceId = t
             /\ \A m \in Range(inv[p].responses) : m.BenchId = b /\ m.TraceId = t
    /\ \A k \in DOMAIN task :
         /\ task[k].sent # NilMsg =>
              /\ task[k].sent.BenchId = Root(k).benchId
              /\ task[k].sent.TraceId = Root(k).traceId
         /\ task[k].resp # NilMsg =>
              /\ task[k].resp.BenchId = Root(k).benchId
              /\ task[k].resp.TraceId = Root(k).traceId
    /\ \A r \in DOMAIN http :
         \A e \in Range(http[r].events) :
            e.benchId = http[r].benchId /\ e.traceId = http[r].traceId

\* A POST with body "abc123" went two hops down and all the way back: the
\* frontend has logged the reply of its peer.
Wit_C7 ==
    \E p \in DOMAIN inv :
       /\ Len(p) = 3 /\ Returned(p)
       /\ Root(p).benchId = "abc123"
       /\ Returned(<<p[1]>>)
       /\ \E e \in Range(inv[<<p[1]>>].events) : e.op = "req_resp"

\* C8: when a peer of the frontend cannot be reached (its connection cannot
\* be constructed or the call to it fails), a GET or POST is still answered
\* with status 200, every failure has been logged, and the calls to all the
\* peers have run to completion.
Thm_C8 ==
    \A r \in DOMAIN http :
       LET p == <<r>>
       IN  /\ http[r].pc = "done"
           /\ Supported(http[r].method)
           /\ \E k \in Kids(p) : Failed(k)
           => /\ http[r].status = StatusOK
              /\ Kids(p) = { p \o <<i>> : i \in 1 .. Len(outServices[Frontend]) }
              /\ \A k \in Kids(p) :
                   /\ task[k].pc = "done"
                   /\ Failed(k) => task[k].err \in Range(inv[p].errlog)
                   /\ ~Failed(k) => task[k].resp \in Range(inv[p].responses)
              /\ Len(inv[p].errlog) = Cardinality({ k \in Kids(p) : Failed(k) })

\* The frontend answered 200 although the connection to one of its two peers
\* could not be constructed; the other peer replied.
Wit_C8 ==
    \E r \in DOMAIN http :
       /\ http[r].pc = "done" /\ http[r].status = StatusOK
       /\ \E k1, k2 \in Kids(<<r>>) :
            /\ task[k1].err = ErrConnect
            /\ task[k2].resp # NilMsg

\* C9: when the 3 s deadline expires before the call tree has completed, the
\* handler answers with status 500 at the deadline.
Cex_C9 ==
    \A r \in DOMAIN http :
       /\ http[r].pc = "done"
       /\ Supported(http[r].method)
       /\ inv[<<r>>].doneAt >= http[r].deadline
       => /\ http[r].status = StatusInternalServerError
          /\ http[r].end = http[r].deadline

\* C10: a GET hands Process the benchId "default" and a POST the request
\* body; the unit handed to Process has depth 0, origin = this node and the
\* handler's traceId, and the response carries that benchId and traceId.
Thm_C10 ==
    \A r \in DOMAIN http :
       Supported(http[r].method) =>
          LET b == IF http[r].method = "GET" THEN "default" ELSE http[r].body
          IN  /\ <<r>> \in DOMAIN inv
              /\ inv[<<r>>].req = [From |-> Frontend, BenchId |-> b,
                                   TraceId |-> http[r].traceId, Depth |-> 0]
              /\ http[r].pc = "done" /\ http[r].status = StatusOK =>
                   /\ http[r].response.benchId = b
                   /\ http[r].response.traceId = inv[<<r>>].req.TraceId

\* A POST with body "abc123" has been answered.
Wit_C10 ==
    \E r \in DOMAIN http :
       /\ http[r].method = "POST" /\ http[r].body = "abc123"
       /\ http[r].pc = "done" /\ http[r].status = StatusOK
       /\ http[r].response.benchId = "abc123"

\* C11: a request whose method is neither GET nor POST is answered 405 by
\* the step that receives it, and that step emits no trace event, starts no
\* Process invocation and no goroutine, and leaves the registry as it was.
Thm_C11 ==
    [][ (/\ Len(http') = Len(http) + 1
         /\ http'[Len(http')].method \notin {"GET", "POST"})
        => /\ http'[Len(http')].status = StatusMethodNotAllowed
           /\ http'[Len(http')].pc = "done"
           /\ http'[Len(http')].events = <<>>
           /\ UNCHANGED <<inv, task, connPool, connPoolMu, dialed>> ]_vars

\* A PUT has been turned away on a frontend whose registry holds a channel.
Wit_C11 ==
    \E r \in DOMAIN http :
       /\ http[r].method = "PUT"
       /\ http[r].status = StatusMethodNotAllowed
       /\ <<r>> \notin DOMAIN inv
       /\ DOMAIN connPool[Frontend] # {}


\* The names a value of -out lists: none for the empty value, otherwise the
\* pieces between its commas.
Names(flag) ==
    IF flag = <<>> THEN <<>>
    ELSE [i \in 1 .. Len(Split(flag, ",")) |->
            Str(Split(flag, ",")[i])]

\* C12: the peer list of a node started by main equals the names its -out
\* value lists, for any number of names, one included; and a node whose
\* -out value lists a name never replies as a leaf: its Process invocations
\* fan out.
Cex_C12 ==
    /\ \A n \in Nodes :
          boot[n].pc # "flag" => outServices[n] = Names(boot[n].out)
    /\ \A p \in DOMAIN inv :
          (Names(boot[inv[p].node].out) # <<>> /\ Returned(p))
             => \E i \in 1 .. Len(Names(boot[inv[p].node].out)) :
                   p \o <<i>> \in DOMAIN task

\* every fan-out goroutine of the invocation ended with an error
AllFailed(p) == Kids(p) # {} /\ \A k \in Kids(p) : task[k].pc = "done" /\ Failed(k)

\* C13 as stated: a node all of whose peers failed replies exactly what a
\* node of the same name without peers replies to the same input.
Cex_C13 ==
    \A p \in DOMAIN inv :
       (Returned(p) /\ AllFailed(p))
          => /\ inv[p].reply = LeafReply(inv[p].node, inv[p].req)
             /\ inv[p].err = NoErr

\* C13: the reply of a node with peers is fixed by the node's name and the
\* input alone, whichever of its downstream calls failed; it carries a nil
\* error like the reply of a node without peers, and differs from that
\* reply in the depth only: 0 instead of input depth + 1.
Thm_C13 ==
    \A p \in DOMAIN inv :
       (Returned(p) /\ ~IsLeaf(inv[p].node))
          => LET leaf == LeafReply(inv[p].node, inv[p].req)
             IN  /\ inv[p].reply = [leaf EXCEPT !.Depth = 0]
                 /\ leaf.Depth = inv[p].req.Depth + 1
                 /\ inv[p].reply # leaf
                 /\ inv[p].err = NoErr

\* A node with two peers has replied after both of its calls failed.
Wit_C13 ==
    \E p \in DOMAIN inv :
       /\ Returned(p) /\ AllFailed(p)
       /\ Cardinality(Kids(p)) = 2

\* the invocation has passed wg.Wait()
PastBarrier(p) ==
    \/ inv[p].closed
    \/ \E i \in DOMAIN inv[p].events : inv[p].events[i].op = "process_end"
    \/ inv[p].reply # NilMsg
    \/ Returned(p)

\* C14: an invocation on a node with peers passes its barrier (closes its
\* channels, emits process_end, replies) only when a goroutine was started
\* for every peer and every one of them has finished, failed or not; while
\* one is still running the invocation waits.
Thm_C14 ==
    \A p \in DOMAIN inv :
       (~IsLeaf(inv[p].node) /\ PastBarrier(p))
          => /\ Kids(p) = { p \o <<i>> : i \in 1 .. Len(outServices[inv[p].node]) }
             /\ \A k \in Kids(p) : task[k].pc = "done"
             /\ inv[p].wg = 0
             /\ ~inv[p].panic

\* An invocation has replied after one of its calls failed at once and the
\* sibling call was answered two time units later.
Wit_C14 ==
    \E p \in DOMAIN inv :
       /\ Returned(p)
       /\ \E k1, k2 \in Kids(p) :
             /\ task[k1].err = ErrConnect
             /\ ~Failed(k2)
             /\ k2 \in DOMAIN inv
             /\ inv[k2].doneAt >= inv[p].wake + 2
       /\ inv[p].doneAt >= inv[p].wake + 2

\* the positions up to j at which the invocation logged op about svc
Logged(p, op, svc, j) ==
    { i \in 1 .. j : inv[p].events[i].op = op /\ inv[p].events[i].related = svc }
\* the positions at which the invocation logged op
LoggedOp(p, op) ==
    { i \in DOMAIN inv[p].events : inv[p].events[i].op = op }

\* C15: the events of one Process invocation are ordered: process_start is
\* the first and only the first; process_end is logged once, by the time the
\* invocation returns, and nothing follows it; every req_start and req_resp
\* lies between the two; each req_resp of a peer follows a req_start of
\* that peer, and there is one req_resp per call that succeeded.
Thm_C15 ==
    \A p \in DOMAIN inv :
       LET e == inv[p].events
       IN  /\ (inv[p].pc = "start") = (e = <<>>)
           /\ e # <<>> => e[1].op = "process_start"
           /\ LoggedOp(p, "process_start") \subseteq {1}
           /\ LoggedOp(p, "process_end") \subseteq {Len(e)}
           /\ Returned(p) = (LoggedOp(p, "process_end") # {})
           /\ \A i \in DOMAIN e :
                 e[i].op \in {"process_start", "req_start", "req_resp", "process_end"}
           /\ \A svc \in Nodes, j \in DOMAIN e :
                 Cardinality(Logged(p, "req_resp", svc, j))
                    <= Cardinality(Logged(p, "req_start", svc, j))
           /\ Cardinality(LoggedOp(p, "req_resp"))
                 = Cardinality({ k \in Kids(p) : /\ task[k].pc \in {"exit", "done"}
                                                 /\ ~Failed(k) })
           /\ Cardinality(LoggedOp(p, "req_start"))
                 = Cardinality({ k \in Kids(p) : task[k].pc # "req_start" })

\* An invocation has returned whose calls to B and C were started in that
\* order and answered in the opposite order.
Wit_C15 ==
    \E p \in DOMAIN inv :
       /\ Returned(p)
       /\ Len(inv[p].events) = 6
       /\ inv[p].events[2].op = "req_start" /\ inv[p].events[2].related = "B"
       /\ inv[p].events[3].op = "req_start" /\ inv[p].events[3].related = "C"
       /\ inv[p].events[4].op = "req_resp" /\ inv[p].events[4].related = "C"
       /\ inv[p].events[5].op = "req_resp" /\ inv[p].events[5].related = "B"
       /\ inv[p].events[6].op = "process_end"


\* the peers the pre-warm pass of the node got a channel for
Prewarmed(n) ==
    { boot[n].log[i].svc : i \in { j \in DOMAIN boot[n].log : boot[n].log[j].ok } }

\* C16: the fan-out of an invocation begins when its sleep is over.  While
\* the invocation has not slept its delay out it has started no goroutine
\* and logged no req_start; a goroutine of the invocation exists, and the
\* invocation its call starts on the peer is entered, only at or after the
\* wake-up time, which is the time of entry plus the node's delay; and the
\* registry of a node is locked, or holds more than the pre-warm pass left,
\* only through such goroutines.
Thm_C16 ==
    /\ \A p \in DOMAIN inv :
          LET n == inv[p].node
          IN  /\ inv[p].pc \in {"start", "sleep"}
                    => /\ Kids(p) = {}
                       /\ LoggedOp(p, "req_start") = {}
              /\ (Len(p) = 1 /\ inv[p].pc # "start")
                    => inv[p].wake = Root(p).start + processingDelay[n]
    /\ \A k \in DOMAIN task :
          /\ inv[Parent(k)].pc \in {"wait", "done"}
          /\ now >= inv[Parent(k)].wake
          /\ (k \in DOMAIN inv /\ inv[k].pc # "start")
                => inv[k].wake >= inv[Parent(k)].wake
                                    + processingDelay[inv[k].node]
    /\ \A n \in Nodes :
          /\ connPoolMu[n] # [r |-> 0, w |-> FALSE]
                => \E k \in DOMAIN task :
                      inv[Parent(k)].node = n /\ task[k].pc = "conn"
          /\ Range(dialed[n]) \ Prewarmed(n)
                \subseteq { task[k].svc : k \in { j \in DOMAIN task :
                                                   inv[Parent(j)].node = n } }

\* On a frontend with a delay, a goroutine has logged req_start and gone on
\* to its connection look-up.
Wit_C16 ==
    \E k \in DOMAIN task :
       /\ processingDelay[inv[Parent(k)].node] > 0
       /\ task[k].pc = "conn"
       /\ LoggedOp(Parent(k), "req_start") # {}
       /\ now = inv[Parent(k)].wake

MaxOf(S) == CHOOSE x \in S : \A y \in S : y <= x

\* C17: the calls of a fan-out run side by side.  When an invocation on a
\* node whose peers are all leaves has returned with every call answered,
\* each peer was entered at the invocation's wake-up time, none after a
\* sibling's reply, and the invocation returned at wake-up plus the largest
\* of the peers' delays, not their sum; a request served this way is
\* answered after the frontend's delay plus that largest delay.
Thm_C17 ==
    \A p \in DOMAIN inv :
       LET n == inv[p].node
           peers == Range(outServices[n])
       IN  (/\ Returned(p) /\ ~IsLeaf(n)
            /\ \A s \in peers : IsLeaf(s)
            /\ \A k \in Kids(p) : ~Failed(k))
              => /\ \A k \in Kids(p) :
                       inv[k].wake = inv[p].wake + processingDelay[inv[k].node]
                 /\ inv[p].doneAt
                       = inv[p].wake + MaxOf({ processingDelay[s] : s \in peers })
                 /\ (Len(p) = 1 /\ Root(p).pc = "done")
                       => Root(p).end - Root(p).start
                            = processingDelay[n]
                                + MaxOf({ processingDelay[s] : s \in peers })

\* Node A with delay 1 has woken and both of its calls, to the leaves B and
\* C with delay 1, are outstanding at once: B and C are asleep in Process.
Wit_C17 ==
    \E p \in DOMAIN inv :
       /\ processingDelay[inv[p].node] = 1
       /\ outServices[inv[p].node] = <<"B", "C">>
       /\ Kids(p) = { p \o <<1>>, p \o <<2>> }
       /\ \A k \in Kids(p) :
             /\ task[k].pc = "rpc"
             /\ k \in DOMAIN inv
             /\ inv[k].pc = "sleep"
             /\ processingDelay[inv[k].node] = 1

\* The same request has been answered 200 two time units after it arrived.
Served_C17 ==
    \E r \in DOMAIN http :
       /\ http[r].pc = "done" /\ http[r].status = StatusOK
       /\ processingDelay = [n \in Nodes |-> 1]
       /\ outServices[Frontend] = <<"B", "C">>
       /\ \A k \in Kids(<<r>>) : ~Failed(k)
       /\ http[r].end - http[r].start = 2

\* C18: a failed construction is not cached.  The step of getConnection
\* that fails to construct the channel returns an error and no channel and
\* leaves the map and the construction history as they were; every name in
\* the map is bound to a constructed channel, so a name whose construction
\* failed is still missed by the next look-up, which constructs again:
\* whatever was returned before, the step under the write lock that misses
\* the name either fails as above or binds the name to a new channel and
\* returns it.
Thm_C18 ==
    /\ [](\A svc \in DOMAIN connPool[Frontend] :
             /\ connPool[Frontend][svc] # NilConn
             /\ Constructions(Frontend, svc) = {connPool[Frontend][svc]})
    /\ [][\A k \in DOMAIN caller :
             (caller[k].f.pc = "check" /\ caller'[k].f.pc = "Unlock"
                /\ ~Exists(connPool[Frontend], caller[k].f.svc))
               => LET svc == caller[k].f.svc
                      g == caller'[k].f
                  IN  \/ /\ g.err # NoErr
                         /\ g.conn = NilConn
                         /\ UNCHANGED <<connPool, dialed>>
                      \/ /\ g.err = NoErr
                         /\ g.conn \notin { connPool[Frontend][x] :
                                             x \in DOMAIN connPool[Frontend] }
                                           \cup {NilConn}
                         /\ g.conn = Len(dialed[Frontend]) + 1
                         /\ dialed' = [dialed EXCEPT ![Frontend] = Append(@, svc)]
                         /\ connPool' = [connPool EXCEPT ![Frontend] =
                                           (svc :> g.conn) @@ connPool[Frontend]]
       ]_vars

\* A goroutine's look-up of "B" failed, and its next look-up of "B" returned
\* a channel, the one the map now holds.
Wit_C18 ==
    \E k \in DOMAIN caller :
       \E i, j \in DOMAIN caller[k].got :
          /\ i < j
          /\ caller[k].got[i].svc = "B" /\ caller[k].got[i].err = ErrConnect
          /\ caller[k].got[j].svc = "B" /\ caller[k].got[j].err = NoErr
          /\ Exists(connPool[Frontend], "B")
          /\ caller[k].got[j].conn = connPool[Frontend]["B"]

\* C19: the registry only grows: no step of any node (the pre-warm pass,
\* a look-up by a fan-out goroutine, anything else) removes a name from a
\* node's map or binds a name the map holds to another channel.
Thm_C19 ==
    [][\A n \in Nodes : \A svc \in DOMAIN connPool[n] :
          /\ svc \in DOMAIN connPool'[n]
          /\ connPool'[n][svc] = connPool[n][svc]]_vars

\* The frontend's map holds the channel to B its pre-warm pass constructed
\* and, next to it, the channel to C a fan-out goroutine constructed after
\* the pre-warm pass had failed for C; both goroutines have been answered.
Wit_C19 ==
    /\ boot[Frontend].log = <<[svc |-> "B", ok |-> TRUE], [svc |-> "C", ok |-> FALSE]>>
    /\ connPool[Frontend] = ("B" :> 1) @@ ("C" :> 2)
    /\ \E p \in DOMAIN inv :
          /\ inv[p].node = Frontend
          /\ Returned(p)
          /\ Len(inv[p].responses) = 2

\* C20: the pre-warm pass looks up every configured peer once, in the
\* configured order, whatever the outcomes: the step in which Preconnect
\* runs logs one outcome per peer, in order, leaves the node serving even
\* when look-ups failed, and leaves in the map exactly the peers whose
\* look-up succeeded, each bound to a constructed channel.
Thm_C20 ==
    [][\A n \in Nodes :
          (boot[n].pc = "new" /\ boot'[n].pc # "new")
            => LET log == boot'[n].log
               IN  /\ boot'[n].pc = "serving"
                   /\ Len(log) = Len(outServices[n])
                   /\ \A i \in DOMAIN log : log[i].svc = outServices[n][i]
                   /\ DOMAIN connPool'[n]
                        = { log[i].svc : i \in { j \in DOMAIN log : log[j].ok } }
                   /\ \A svc \in DOMAIN connPool'[n] :
                         /\ connPool'[n][svc] # NilConn
                         /\ { i \in DOMAIN dialed'[n] : dialed'[n][i] = svc }
                              = {connPool'[n][svc]}
      ]_vars

\* The pass of a node with peers B and C failed for B, went on to C, and
\* the node is serving with a map that holds C only.
Wit_C20 ==
    \E n \in Nodes :
       /\ outServices[n] = <<"B", "C">>
       /\ Serving(n)
       /\ boot[n].log = <<[svc |-> "B", ok |-> FALSE], [svc |-> "C", ok |-> TRUE]>>
       /\ DOMAIN connPool[n] = {"C"}

\* C21: every downstream request a node sends carries the node's name as
\* origin and the depth of the unit the node received plus one; the unit an
\* invocation works on is the request that was sent to it, so the
\* invocation k hops below the ingress invocation (which receives depth 0
\* from the frontend itself) receives depth k.
Thm_C21 ==
    /\ \A k \in DOMAIN task :
          task[k].sent # NilMsg =>
             /\ task[k].sent.From = inv[Parent(k)].node
             /\ task[k].sent.Depth = inv[Parent(k)].req.Depth + 1
    /\ \A p \in DOMAIN inv :
          /\ inv[p].req.Depth = Len(p) - 1
          /\ Len(p) = 1 => inv[p].req.From = Frontend /\ inv[p].node = Frontend
          /\ Len(p) > 1 => /\ inv[p].req = task[p].sent
                           /\ inv[p].req.From = inv[Parent(p)].node
                           /\ inv[p].node = task[p].svc

\* Node C, two hops below the frontend, works on a unit of depth 2 sent by B.
Wit_C21 ==
    \E p \in DOMAIN inv :
       /\ Len(p) = 3
       /\ inv[p].node = "C"
       /\ inv[p].req.Depth = 2
       /\ inv[p].req.From = "B"
       /\ inv[p].pc # "start"

\* C22: the deadline set at ingress, arrival plus 3 s, is the deadline of
\* every Process invocation of the tree, at any depth: each downstream call
\* carries the deadline of the context its caller was invoked with, so a
\* call ends with DeadlineExceeded only at or after the ingress deadline
\* and a call still awaited at that time is given up.
Thm_C22 ==
    /\ \A r \in DOMAIN http :
          Supported(http[r].method) => http[r].deadline = http[r].start + Timeout
    /\ \A p \in DOMAIN inv :
          /\ inv[p].deadline = Root(p).deadline
          /\ Len(p) > 1 => inv[p].deadline = inv[Parent(p)].deadline
    /\ \A k \in DOMAIN task :
          /\ task[k].err = ErrDeadline => now >= Root(k).deadline
          /\ (task[k].pc = "rpc" /\ now >= Root(k).deadline)
                => ENABLED TaskTimeout(k)

\* Node C, two hops below the frontend, was entered two time units after
\* the request arrived and runs under the deadline set at ingress.
Wit_C22 ==
    \E p \in DOMAIN inv :
       /\ Len(p) = 3
       /\ inv[p].pc # "start"
       /\ inv[p].wake >= Root(p).start + 2
       /\ inv[p].deadline = Root(p).start + Timeout

\* C23: any two distinct requests handled by the frontend, served one after
\* the other or at the same time, are given different traceIds.
Cex_C23 ==
    \A r1, r2 \in DOMAIN http :
       r1 # r2 => http[r1].traceId # http[r2].traceId

\* the goroutines of the invocation that have sent their result
Sent(p) == { k \in Kids(p) : task[k].pc \in {"exit", "done"} }

\* C24: in every invocation each goroutine sends one value at most, an
\* error or a response, so the two channels, each as large as the peer
\* list, together hold one value per goroutine that has sent; a goroutine
\* about to send can always send (no send blocks, none meets a closed
\* channel, nothing panics), the channels are closed only when every
\* goroutine is done, the barrier counts the goroutines not yet done, and
\* in the end every goroutine is done and every invocation has returned.
Thm_C24 ==
    /\ [](\A p \in DOMAIN inv :
            /\ Len(inv[p].responses) + Len(inv[p].errors) = Cardinality(Sent(p))
            /\ Len(inv[p].responses) <= ChanCap(inv[p].node)
            /\ Len(inv[p].errors) <= ChanCap(inv[p].node)
            /\ ~inv[p].panic
            /\ inv[p].closed => \A k \in Kids(p) : task[k].pc = "done"
            /\ inv[p].pc = "wait" =>
                  inv[p].wg = Cardinality({ k \in Kids(p) : task[k].pc # "done" })
            /\ \A k \in Kids(p) :
                  /\ task[k].pc = "result" => ENABLED TaskResult(k)
                  /\ task[k].pc = "exit" => ENABLED TaskDone(k))
    /\ <>[](/\ \A k \in DOMAIN task : task[k].pc = "done"
            /\ \A p \in DOMAIN inv : Returned(p))

\* An invocation with two peers has returned after both calls failed: its
\* errors channel was filled to its capacity.
Wit_C24 ==
    \E p \in DOMAIN inv :
       /\ Returned(p)
       /\ ChanCap(inv[p].node) = 2
       /\ Len(inv[p].errors) = 2
       /\ \A k \in Kids(p) : task[k].pc = "done"

\* the direct callers whose activation is at one of the given places
At(pcs) == { k \in DOMAIN caller : caller[k].f.pc \in pcs }

\* C25: the lock of the registry is held by exactly the activations of
\* getConnection between an acquisition and its release: the read lock by
\* those looking up on the fast path, the write lock by at most one, past
\* its Lock and before its deferred Unlock, and then by no reader; an
\* activation waiting for the write lock holds no lock; so when every
\* caller has returned no lock is held, whichever way each returned.  And
\* every caller does return: in the end all are idle and the lock is free.
Thm_C25 ==
    /\ [](/\ connPoolMu[Frontend].r = Cardinality(At({"read"}))
          /\ connPoolMu[Frontend].w = (At({"check", "Unlock"}) # {})
          /\ Cardinality(At({"check", "Unlock"})) <= 1
          /\ connPoolMu[Frontend].w => connPoolMu[Frontend].r = 0
          /\ At({"RLock", "read", "Lock", "check", "Unlock"}) = {}
                => connPoolMu[Frontend] = [r |-> 0, w |-> FALSE])
    /\ <>[](/\ At({"idle"}) = DOMAIN caller
            /\ connPoolMu[Frontend] = [r |-> 0, w |-> FALSE])

\* Both callers have returned and the lock is free after look-ups that
\* returned on the fast path, on the re-check, with an error and with a new
\* channel.
Wit_C25 ==
    /\ At({"idle"}) = DOMAIN caller
    /\ connPoolMu[Frontend] = [r |-> 0, w |-> FALSE]
    /\ \E g \in UNION { Range(caller[k].got) : k \in DOMAIN caller } :
          g.err = ErrConnect
    /\ \E g \in UNION { Range(caller[k].got) : k \in DOMAIN caller } :
          g.err = NoErr
    /\ CallsMade(Len(caller)) = MaxCalls
=============================================================================
